---- MODULE Spec2Model ----
(***************************************************************************)
(* A model of the DAIO reward tracker: the DAIORewardSystem object         *)
(* (tracked-wallet set, holding-duration lookup, reward calculation, the   *)
(* check_all_wallets coroutine), QuantumAIUtils, and the command loop of   *)
(* main().                                                                 *)
(*                                                                         *)
(* External collaborators (the RPC client, the circuit simulator, the      *)
(* language-model client, the scheduler's clock, the terminal) are not     *)
(* modelled inside: each call to one of them is a nondeterministic choice  *)
(* among the results it can hand back, an exception included.              *)
(*                                                                         *)
(* Text is a sequence of one-character strings, so that strip(), lower(),  *)
(* startswith() and slicing are computed as Python computes them.          *)
(* Multipliers are fixed-point: base multipliers in hundredths, boosts in  *)
(* thousandths, final multipliers in hundred-thousandths.  All values the  *)
(* code can produce are exact in this scale, and the comparisons made here *)
(* agree with those on the floats.                                         *)
(***************************************************************************)
EXTENDS Integers, Sequences, FiniteSets, TLC

VARIABLES
    wallets_to_track,   \* self.wallets_to_track
    ops,                \* history of add/remove calls made on the object
    main_pc,            \* where main() is: run_pending, input, sleep, exited
    command,            \* the raw line the loop is handling (none between turns)
    printed,            \* the last message printed, with the lines of a listing
    ended_by,           \* what ended the command loop
    coroutines,         \* coroutine objects created and never awaited
    check_pc,           \* where an awaited check_all_wallets is
    to_visit,           \* wallets the for loop has not reached yet
    reports,            \* what the check printed for each wallet
    fetched,            \* wallets whose holdings the current check fetched
    rpc,                \* what the RPC client answered for the last token account
    holding_info,       \* what get_token_holding_duration returned
    wallet,             \* the for loop's variable in check_all_wallets
    accounts,           \* token accounts the lookup in progress was given
    account_i,          \* how many of them its loop has been through
    holding_info_list,  \* its list holding_info
    rw_pc,              \* where a calculate_rewards call is
    rw_days,            \* its holding_duration_days argument
    rw_seed,            \* quantum_seed
    rewards             \* the dict it returned

vars == << wallets_to_track, ops, main_pc, command, printed, ended_by,
           coroutines, check_pc, to_visit, reports, fetched, rpc, holding_info,
           wallet, accounts, account_i, holding_info_list, rw_pc, rw_days, rw_seed, rewards >>

trackerVars == << wallets_to_track, ops >>
mainVars    == << main_pc, command, printed, ended_by, coroutines >>
checkVars   == << check_pc, to_visit, reports, fetched, rpc, holding_info,
                 wallet, accounts, account_i, holding_info_list >>
rewardVars  == << rw_pc, rw_days, rw_seed, rewards >>

(***************************************************************************)
(* Bounds of the model.                                                    *)
(***************************************************************************)
MaxDays == 400          \* largest holding duration given to calculate_rewards
MaxNegDays == 2         \* most negative holding duration given to it
MaxOps == 4             \* add/remove calls recorded in a history
MaxAccounts == 2        \* token accounts the RPC client reports for a wallet
MaxCoroutines == 2      \* never-awaited coroutine objects counted

(***************************************************************************)
(* Program constants.                                                      *)
(***************************************************************************)
DiamondDays == 365
GoldDays == 180
SilverDays == 90
YearDays == 365
SeedStates == 16
Shots == 100
SeedQubits == 4

(***************************************************************************)
(* QuantumAIUtils.generate_quantum_seed: int(binary_result, 2).            *)
(* binary_result is the key of the single-shot counts, taken here to be    *)
(* any string of SeedQubits bits, most significant first.                  *)
(***************************************************************************)
BitStrings == [1..SeedQubits -> {0, 1}]

RECURSIVE BinToInt(_)
BinToInt(bits) ==
    IF Len(bits) = 0 THEN 0
    ELSE 2 * BinToInt(SubSeq(bits, 1, Len(bits) - 1)) + bits[Len(bits)]

GenerateQuantumSeed(wallet_address, binary_result) == BinToInt(binary_result)

(***************************************************************************)
(* QuantumAIUtils.quantum_boost_multiplier.  The rotation angles are       *)
(* theta = pi * ThetaSteps / 365 and phi = pi * PhiSteps / 16; ones is     *)
(* counts.get('1', 0) of the 100-shot run, any count the sampler can hand  *)
(* back.  The result is 1.0 + 0.5 * ones / 100, in thousandths.            *)
(***************************************************************************)
ThetaSteps(holding_days) == holding_days % YearDays
PhiSteps(quantum_seed) == quantum_seed % SeedStates

OnesCounts(holding_days, quantum_seed) ==
    IF ThetaSteps(holding_days) \in 0..(YearDays - 1)
       /\ PhiSteps(quantum_seed) \in 0..(SeedStates - 1)
    THEN 0..Shots ELSE {}

\* mutant: the boost spans a whole unit, 1.0 + prob_one
QuantumBoostMultiplier_Unit(holding_days, quantum_seed, ones) ==
    1000 + (1000 * ones) \div Shots

QuantumBoostMultiplier(holding_days, quantum_seed, ones) ==
    1000 + (500 * ones) \div Shots

(***************************************************************************)
(* DAIORewardSystem.calculate_rewards: the tier table, first match wins.   *)
(* base_multiplier is in hundredths.                                       *)
(***************************************************************************)
\* mutant: strict comparisons in the tier table
BaseTier_Strict(holding_duration_days) ==
    IF holding_duration_days > DiamondDays
    THEN [tier |-> "Diamond", base_multiplier |-> 200]
    ELSE IF holding_duration_days > GoldDays
    THEN [tier |-> "Gold", base_multiplier |-> 150]
    ELSE IF holding_duration_days > SilverDays
    THEN [tier |-> "Silver", base_multiplier |-> 125]
    ELSE [tier |-> "Bronze", base_multiplier |-> 100]

BaseTier(holding_duration_days) ==
    IF holding_duration_days >= DiamondDays
    THEN [tier |-> "Diamond", base_multiplier |-> 200]
    ELSE IF holding_duration_days >= GoldDays
    THEN [tier |-> "Gold", base_multiplier |-> 150]
    ELSE IF holding_duration_days >= SilverDays
    THEN [tier |-> "Silver", base_multiplier |-> 125]
    ELSE [tier |-> "Bronze", base_multiplier |-> 100]

FinalMultiplier(base_multiplier, quantum_boost) == base_multiplier * quantum_boost

CalculateRewards(holding_duration_days, quantum_seed, ones) ==
    LET t == BaseTier(holding_duration_days)
        quantum_boost ==
            QuantumBoostMultiplier(holding_duration_days, quantum_seed, ones)
    IN  [ tier |-> t.tier,
          base_multiplier |-> t.base_multiplier,
          quantum_boost |-> quantum_boost,
          final_multiplier |-> FinalMultiplier(t.base_multiplier, quantum_boost),
          holding_days |-> holding_duration_days,
          quantum_seed |-> quantum_seed ]

(***************************************************************************)
(* Text: str.lower(), str.strip(), str.startswith() and s[n:].             *)
(***************************************************************************)
UpperCase == << "A", "B", "C", "D", "E", "F", "G", "H", "I", "J", "K", "L", "M",
                "N", "O", "P", "Q", "R", "S", "T", "U", "V", "W", "X", "Y", "Z" >>
LowerCase == << "a", "b", "c", "d", "e", "f", "g", "h", "i", "j", "k", "l", "m",
                "n", "o", "p", "q", "r", "s", "t", "u", "v", "w", "x", "y", "z" >>
Whitespace == { " ", "\t", "\n", "\r" }

IsUpper(c) == \E i \in 1..Len(UpperCase) : UpperCase[i] = c

LowerChar(c) ==
    IF IsUpper(c)
    THEN LowerCase[CHOOSE i \in 1..Len(UpperCase) : UpperCase[i] = c]
    ELSE c

Lower(s) == [i \in 1..Len(s) |-> LowerChar(s[i])]

RECURSIVE LStrip(_)
LStrip(s) ==
    IF Len(s) > 0 /\ s[1] \in Whitespace THEN LStrip(Tail(s)) ELSE s

RECURSIVE RStrip(_)
RStrip(s) ==
    IF Len(s) > 0 /\ s[Len(s)] \in Whitespace
    THEN RStrip(SubSeq(s, 1, Len(s) - 1)) ELSE s

Strip(s) == RStrip(LStrip(s))

StartsWith(s, prefix) ==
    Len(s) >= Len(prefix) /\ SubSeq(s, 1, Len(prefix)) = prefix

SliceFrom(s, n) == SubSeq(s, n + 1, Len(s))

(***************************************************************************)
(* The tracked-wallet set: set.add and set.discard.                        *)
(***************************************************************************)
AddWalletToTrack(wallets, wallet_address) == wallets \cup {wallet_address}

\* mutant: removing an address stops tracking everything
RemoveWalletToTrack_Clear(wallets, wallet_address) ==
    IF wallet_address \in wallets THEN {} ELSE wallets

RemoveWalletToTrack(wallets, wallet_address) == wallets \ {wallet_address}

(* Iterating a set: every order in which "for wallet in wallets" can run. *)
RECURSIVE Iterations(_)
Iterations(wallets) ==
    IF wallets = {} THEN { << >> }
    ELSE UNION { { << w >> \o rest : rest \in Iterations(wallets \ {w}) } :
                 w \in wallets }

(***************************************************************************)
(* Calls made on the object by a client: add_wallet_to_track,              *)
(* remove_wallet_to_track, and the listing loop of the "list" command.     *)
(***************************************************************************)
ClientAddresses == { << "A", "B", "C" >>, << "X", "Y", "Z" >>, << "a", "b", "c" >> }

ClientAdd(w) ==
    /\ Len(ops) < MaxOps
    /\ wallets_to_track' = AddWalletToTrack(wallets_to_track, w)
    /\ ops' = Append(ops, [op |-> "add", wallet |-> w, out |-> << >>])
    /\ UNCHANGED << mainVars, checkVars, rewardVars >>

ClientRemove(w) ==
    /\ Len(ops) < MaxOps
    /\ wallets_to_track' = RemoveWalletToTrack(wallets_to_track, w)
    /\ ops' = Append(ops, [op |-> "remove", wallet |-> w, out |-> << >>])
    /\ UNCHANGED << mainVars, checkVars, rewardVars >>

ClientList ==
    /\ Len(ops) < MaxOps
    /\ \E out \in Iterations(wallets_to_track) :
          ops' = Append(ops, [op |-> "list", wallet |-> << >>, out |-> out])
    /\ UNCHANGED << wallets_to_track, mainVars, checkVars, rewardVars >>

(***************************************************************************)
(* datetime.  A datetime is its wall-clock reading in seconds, whether it  *)
(* carries a tzinfo (aware) and, if so, its UTC offset.  Subtracting an    *)
(* aware and a naive datetime raises TypeError; timedelta.days is the      *)
(* floor of the difference in days.                                        *)
(***************************************************************************)
TypeError == [raised |-> "TypeError"]

\* datetime.fromisoformat("2025-01-03T17:17:01-08:00")
CurrentTime == [seconds |-> 1735924621, aware |-> TRUE, utcoffset |-> 0 - 28800]

\* datetime.fromtimestamp(t): the local wall clock, no tzinfo
FromTimestamp(t, local_utcoffset) ==
    [seconds |-> t + local_utcoffset, aware |-> FALSE, utcoffset |-> 0]

DatetimeSub(a, b) ==
    IF a.aware # b.aware THEN TypeError
    ELSE [raised |-> "no",
          days |-> ((a.seconds - a.utcoffset) - (b.seconds - b.utcoffset)) \div 86400]

(***************************************************************************)
(* What the RPC client can answer for one token account.  A call that is   *)
(* not reached has the answer "unasked".  blockTime is that of the         *)
(* earliest transaction, history['result'][-1].                            *)
(***************************************************************************)
Deployer == "GF6AF7pJZnKNeZvLQ8Jwx7j2uSWSNRZMgan3BCbHbVSr"
OtherOwner == "TokenkegQfeZyiNwAJbNbGKPFXCWuBvf9Ss623VQ5DA"

\* 2023-11-14, the lookup's own current time, and 2026-01-01 (UTC)
BlockTimes == { 1700000000, 1735953421, 1767225600 }
LocalOffsets == { 0 - 28800, 0 }

AccountAnswer(info, owner, history, blockTime) ==
    [account_info |-> info, mint_owner |-> owner, history |-> history,
     blockTime |-> blockTime]

AccountAnswers ==
    { AccountAnswer("raise", "unasked", "unasked", 0),
      AccountAnswer("empty", "unasked", "unasked", 0),
      AccountAnswer("mint", "raise", "unasked", 0),
      AccountAnswer("mint", "empty", "unasked", 0),
      AccountAnswer("mint", OtherOwner, "unasked", 0),
      AccountAnswer("mint", Deployer, "raise", 0),
      AccountAnswer("mint", Deployer, "empty", 0) }
    \cup { AccountAnswer("mint", Deployer, "transactions", t) : t \in BlockTimes }

(***************************************************************************)
(* DAIORewardSystem.get_token_holding_duration.                            *)
(***************************************************************************)
NoAccountsError == [error |-> "No token accounts found for this wallet"]
LookupError == [error |-> "Error checking token holding duration"]

IsError(info) == "error" \in DOMAIN info

\* One turn of the for loop over the token accounts, for account number i:
\* whether an exception leaves it (to the except clause), and holding_info
\* after it.
ScanAccount(account, i, local_utcoffset, so_far) ==
    LET skip == [raised |-> FALSE, holding_info |-> so_far]
        raise == [raised |-> TRUE, holding_info |-> so_far]
    IN  IF account.account_info = "raise" THEN raise
        ELSE IF account.account_info = "empty" THEN skip
        ELSE IF account.mint_owner = "raise" THEN raise
        ELSE IF account.mint_owner = "empty" THEN skip
        ELSE IF account.mint_owner # Deployer THEN skip
        ELSE IF account.history = "raise" THEN raise
        ELSE IF account.history = "empty" THEN skip
        ELSE LET acquisition_time ==
                     FromTimestamp(account.blockTime, local_utcoffset)
                 holding_duration == DatetimeSub(CurrentTime, acquisition_time)
             IN  IF holding_duration.raised # "no" THEN raise
                 ELSE [raised |-> FALSE,
                       holding_info |->
                          Append(so_far,
                             [token_account |-> i,
                              mint_address |-> account.account_info,
                              holding_duration_days |-> holding_duration.days,
                              acquisition_date |-> acquisition_time.seconds])]

(***************************************************************************)
(* check_all_wallets, the body of the for loop after the lookup.           *)
(* An outcome is what the language-model client and the simulator hand     *)
(* back in the calls this wallet leads to: the awaited messages.create,    *)
(* the seed for the confidence, and per holding the seed and the boost of  *)
(* calculate_rewards.                                                      *)
(***************************************************************************)
SimAnswers ==
    [seed_raises : BOOLEAN, binary_result : BitStrings,
     boost_raises : BOOLEAN, ones : 0..Shots]

NoCalls == [llm |-> "uncalled", confidence_raises |-> FALSE, sims |-> << >>]

Outcomes(info) ==
    IF IsError(info) \/ Len(info.holdings) = 0 THEN { NoCalls }
    ELSE [llm : {"message", "raise"}, confidence_raises : BOOLEAN,
          sims : [1..Len(info.holdings) -> SimAnswers]]

\* QuantumAIUtils.analyze_holding_pattern: TRUE when it raises
AnalyzeHoldingPatternRaises(wallet_data, outcome) ==
    /\ Len(wallet_data.holdings) > 0
    /\ (outcome.llm = "raise" \/ outcome.confidence_raises)

\* mutant: a failed lookup is not turned into an error result, it raises
WalletBody_LookupRaises(info, outcome) ==
    IF IsError(info) THEN [report |-> "checking", flow |-> "raise"]
    ELSE [report |-> "no_tokens", flow |-> "continue"]

\* what the body prints for the wallet, and how control leaves it
WalletBody(info, outcome) ==
    IF IsError(info) THEN [report |-> "error", flow |-> "continue"]
    ELSE IF Len(info.holdings) = 0
    THEN [report |-> "no_tokens", flow |-> "continue"]
    ELSE IF AnalyzeHoldingPatternRaises(info, outcome)
    THEN [report |-> "checking", flow |-> "raise"]
    ELSE IF \E i \in 1..Len(info.holdings) :
                outcome.sims[i].seed_raises \/ outcome.sims[i].boost_raises
    THEN [report |-> "analysis", flow |-> "raise"]
    ELSE [report |-> "rewards", flow |-> "continue"]

(***************************************************************************)
(* check_all_wallets, run by a caller that awaits it.  The for loop visits *)
(* the set in any order; nothing else runs between its steps.              *)
(***************************************************************************)
AwaitCheck ==
    /\ check_pc \in {"idle", "returned", "raised"}
    /\ fetched' = {}
    /\ reports' = [w \in wallets_to_track |-> "unvisited"]
    /\ wallet' = << >>
    /\ rpc' = << >>
    /\ holding_info' = << >>
    /\ holding_info_list' = << >>
    /\ accounts' = 0
    /\ account_i' = 0
    /\ to_visit' = wallets_to_track
    /\ check_pc' = IF wallets_to_track = {} THEN "returned" ELSE "loop"
    /\ UNCHANGED << trackerVars, mainVars, rewardVars >>

\* The for loop takes the next wallet and get_token_holding_duration asks
\* for its token accounts: the call raises, or reports n accounts.
LookupWallet ==
    /\ check_pc = "loop"
    /\ \E w \in to_visit, raises \in BOOLEAN, n \in 0..MaxAccounts :
          /\ raises => n = 0
          /\ wallet' = << w >>
          /\ to_visit' = to_visit \ {w}
          /\ fetched' = fetched \cup {w}
          /\ rpc' = << >>
          /\ holding_info_list' = << >>
          /\ accounts' = n
          /\ account_i' = 0
          /\ holding_info' = IF raises THEN << LookupError >>
                             ELSE IF n = 0 THEN << NoAccountsError >>
                             ELSE << >>
          /\ check_pc' = IF raises \/ n = 0 THEN "body" ELSE "accounts"
    /\ UNCHANGED << reports, trackerVars, mainVars, rewardVars >>

\* one turn of the loop over the token accounts
LookupAccount ==
    /\ check_pc = "accounts"
    /\ account_i < accounts
    /\ \E account \in AccountAnswers, z \in LocalOffsets :
         LET turn == ScanAccount(account, account_i + 1, z, holding_info_list)
         IN  /\ rpc' = << account >>
             /\ account_i' = account_i + 1
             /\ holding_info_list' = turn.holding_info
             /\ holding_info' = IF turn.raised THEN << LookupError >> ELSE << >>
             /\ check_pc' = IF turn.raised THEN "body" ELSE "accounts"
    /\ UNCHANGED << to_visit, reports, fetched, wallet, accounts, trackerVars,
                    mainVars, rewardVars >>

\* the loop over the token accounts is over: the lookup returns the holdings
LookupReturn ==
    /\ check_pc = "accounts"
    /\ account_i = accounts
    /\ holding_info' =
          << [wallet_address |-> wallet[1], holdings |-> holding_info_list] >>
    /\ check_pc' = "body"
    /\ UNCHANGED << to_visit, reports, fetched, rpc, wallet, accounts,
                    account_i, holding_info_list, trackerVars, mainVars,
                    rewardVars >>

\* the rest of the for loop's body, given what the lookup returned
CheckWallet ==
    /\ check_pc = "body"
    /\ \E outcome \in Outcomes(holding_info[1]) :
         LET body == WalletBody(holding_info[1], outcome)
         IN  /\ reports' = [reports EXCEPT ![wallet[1]] = body.report]
             /\ check_pc' = IF body.flow = "raise" THEN "raised" ELSE "loop"
    /\ UNCHANGED << to_visit, fetched, rpc, holding_info, wallet, accounts,
                    account_i, holding_info_list, trackerVars, mainVars,
                    rewardVars >>

CheckReturn ==
    /\ check_pc = "loop"
    /\ to_visit = {}
    /\ check_pc' = "returned"
    /\ UNCHANGED << to_visit, reports, fetched, rpc, holding_info, wallet,
                    accounts, account_i, holding_info_list, trackerVars,
                    mainVars, rewardVars >>

(***************************************************************************)
(* calculate_rewards called by a client, in the order of its statements:   *)
(* the seed, the tier, the boost, the result.  Either simulator call may   *)
(* raise, and the exception leaves calculate_rewards.                      *)
(***************************************************************************)
RewardDays == (0 - MaxNegDays)..MaxDays

SeedCall ==
    /\ rw_pc = "called"
    /\ \E binary_result \in BitStrings :
          /\ rw_seed' = GenerateQuantumSeed(<< >>, binary_result)
          /\ rw_pc' = "seeded"
    /\ UNCHANGED << rw_days, rewards, trackerVars, mainVars, checkVars >>

SeedRaises ==
    /\ rw_pc = "called"
    /\ rw_pc' = "raised"
    /\ UNCHANGED << rw_days, rw_seed, rewards, trackerVars, mainVars, checkVars >>

BoostCall ==
    /\ rw_pc = "seeded"
    /\ \E ones \in OnesCounts(rw_days, rw_seed) :
          /\ rewards' = << CalculateRewards(rw_days, rw_seed, ones) >>
          /\ rw_pc' = "returned"
    /\ UNCHANGED << rw_days, rw_seed, trackerVars, mainVars, checkVars >>

BoostRaises ==
    /\ rw_pc = "seeded"
    /\ rw_pc' = "raised"
    /\ UNCHANGED << rw_days, rw_seed, rewards, trackerVars, mainVars, checkVars >>

(***************************************************************************)
(* main(): the command loop.                                               *)
(***************************************************************************)
ExitWord == << "e", "x", "i", "t" >>
ListWord == << "l", "i", "s", "t" >>
CheckWord == << "c", "h", "e", "c", "k" >>
AddPrefix == << "a", "d", "d", " " >>
RemovePrefix == << "r", "e", "m", "o", "v", "e", " " >>

\* mutant: the command is trimmed and not lower-cased
Normalize_NoLower(line) == Strip(line)

\* input("\nEnter command: ").strip().lower()
Normalize(line) == Lower(Strip(line))

\* mutant: add and remove are recognised by the bare word, with no space
Dispatch_BareWord(cmd) ==
    IF cmd = ExitWord THEN [branch |-> "exit", wallet |-> << >>]
    ELSE IF StartsWith(cmd, << "a", "d", "d" >>)
    THEN [branch |-> "add", wallet |-> Strip(SliceFrom(cmd, 3))]
    ELSE IF StartsWith(cmd, << "r", "e", "m", "o", "v", "e" >>)
    THEN [branch |-> "remove", wallet |-> Strip(SliceFrom(cmd, 6))]
    ELSE IF cmd = ListWord THEN [branch |-> "list", wallet |-> << >>]
    ELSE IF cmd = CheckWord THEN [branch |-> "check", wallet |-> << >>]
    ELSE [branch |-> "invalid", wallet |-> << >>]

\* The if/elif chain on the normalised command: the branch taken and, for
\* add and remove, the wallet it passes on.
Dispatch(cmd) ==
    IF cmd = ExitWord THEN [branch |-> "exit", wallet |-> << >>]
    ELSE IF StartsWith(cmd, AddPrefix)
    THEN [branch |-> "add", wallet |-> Strip(SliceFrom(cmd, 4))]
    ELSE IF StartsWith(cmd, RemovePrefix)
    THEN [branch |-> "remove", wallet |-> Strip(SliceFrom(cmd, 7))]
    ELSE IF cmd = ListWord THEN [branch |-> "list", wallet |-> << >>]
    ELSE IF cmd = CheckWord THEN [branch |-> "check", wallet |-> << >>]
    ELSE [branch |-> "invalid", wallet |-> << >>]

\* Calling the coroutine function check_all_wallets without awaiting it
\* makes a coroutine object and runs none of its body.  The count saturates
\* at MaxCoroutines.
CallCheckAllWallets(n) == IF n < MaxCoroutines THEN n + 1 ELSE n

\* What happens to an exception raised inside the try block of the loop:
\* "except Exception" prints it and the while loop goes round again.
Message(msg) == [msg |-> msg, lines |-> << >>]

\* mutant: the handler prints the exception and leaves the loop
ExceptException_Break == [main_pc |-> "exited", printed |-> Message("error")]

ExceptException == [main_pc |-> "run_pending", printed |-> Message("error")]

\* Lines typed at the prompt: padding, a word, a separator, an argument,
\* padding.
Pads == { << >>, << " " >> }
Words == { << >>,
           << "a", "d", "d" >>, << "A", "d", "d" >>, << "a", "d", "d", "x" >>,
           << "r", "e", "m", "o", "v", "e" >>, << "R", "E", "M", "O", "V", "E" >>,
           << "l", "i", "s", "t" >>,
           << "c", "h", "e", "c", "k" >>, << "C", "h", "e", "c", "k" >>,
           << "e", "x", "i", "t" >>,
           << "h", "e", "l", "p" >> }
Separators == { << >>, << " " >>, << "\t" >> }
Arguments == { << >>, << "a" >>, << "B" >>, << "a", " ", "B" >> }

InputLines ==
    { p \o w \o s \o a \o p :
        p \in Pads, w \in Words, s \in Separators, a \in Arguments }

\* schedule.run_pending(): at 16:21 the job is due and is called
RunPending ==
    /\ main_pc = "run_pending"
    /\ \E due \in BOOLEAN :
          coroutines' = IF due THEN CallCheckAllWallets(coroutines) ELSE coroutines
    /\ main_pc' = "input"
    /\ UNCHANGED << command, printed, ended_by, trackerVars, checkVars, rewardVars >>

RunPendingRaises ==
    /\ main_pc = "run_pending"
    /\ main_pc' = ExceptException.main_pc
    /\ printed' = ExceptException.printed
    /\ UNCHANGED << command, ended_by, coroutines, trackerVars, checkVars,
                    rewardVars >>

\* input() returns a line and the if/elif chain handles it
ReadCommand ==
    /\ main_pc = "input"
    /\ \E line \in InputLines :
         LET d == Dispatch(Normalize(line))
         IN  /\ command' = line
             /\ main_pc' = IF d.branch = "exit" THEN "exited" ELSE "sleep"
             /\ ended_by' = IF d.branch = "exit" THEN "exit" ELSE ended_by
             /\ wallets_to_track' =
                   IF d.branch = "add"
                   THEN AddWalletToTrack(wallets_to_track, d.wallet)
                   ELSE IF d.branch = "remove"
                   THEN RemoveWalletToTrack(wallets_to_track, d.wallet)
                   ELSE wallets_to_track
             /\ \E lines \in IF d.branch = "list"
                             THEN Iterations(wallets_to_track) ELSE { << >> } :
                   printed' =
                      IF d.branch = "add" THEN Message("tracking")
                      ELSE IF d.branch = "remove" THEN Message("stopped")
                      ELSE IF d.branch = "list"
                      THEN [msg |-> "list", lines |-> lines]
                      ELSE IF d.branch = "invalid" THEN Message("invalid")
                      ELSE printed
             /\ coroutines' =
                   IF d.branch = "check" THEN CallCheckAllWallets(coroutines)
                   ELSE coroutines
    /\ UNCHANGED << ops, checkVars, rewardVars >>

\* input() raises (end of input)
InputRaises ==
    /\ main_pc = "input"
    /\ main_pc' = ExceptException.main_pc
    /\ printed' = ExceptException.printed
    /\ UNCHANGED << command, ended_by, coroutines, trackerVars, checkVars,
                    rewardVars >>

\* time.sleep(1), then the next turn of the while loop
Sleep ==
    /\ main_pc = "sleep"
    /\ main_pc' = "run_pending"
    /\ command' = << >>
    /\ UNCHANGED << printed, ended_by, coroutines, trackerVars, checkVars,
                    rewardVars >>

\* KeyboardInterrupt anywhere in the try block
Interrupt ==
    /\ main_pc \in {"run_pending", "input", "sleep"}
    /\ main_pc' = "exited"
    /\ printed' = Message("exiting")
    /\ ended_by' = "interrupt"
    /\ UNCHANGED << command, coroutines, trackerVars, checkVars, rewardVars >>

(***************************************************************************)
(* Initial states and specifications.                                      *)
(***************************************************************************)
InitObject(pc) ==
    /\ ops = << >>
    /\ main_pc = pc
    /\ command = << >>
    /\ printed = Message("nothing")
    /\ ended_by = "nothing"
    /\ coroutines = 0
    /\ check_pc = "idle"
    /\ to_visit = {}
    /\ reports = << >>
    /\ fetched = {}
    /\ rpc = << >>
    /\ holding_info = << >>
    /\ wallet = << >>
    /\ accounts = 0
    /\ account_i = 0
    /\ holding_info_list = << >>
    /\ rw_pc = "idle"
    /\ rw_days = 0
    /\ rw_seed = 0
    /\ rewards = << >>

\* main(): DAIORewardSystem() and the command loop
Init ==
    /\ InitObject("run_pending")
    /\ wallets_to_track = {}

Next ==
    \/ RunPending
    \/ RunPendingRaises
    \/ ReadCommand
    \/ InputRaises
    \/ Sleep
    \/ Interrupt

Spec == Init /\ [][Next]_vars

\* a client's calls on a fresh object
NextTracker ==
    \/ \E w \in ClientAddresses : ClientAdd(w)
    \/ \E w \in ClientAddresses : ClientRemove(w)
    \/ ClientList

InitTracker ==
    /\ InitObject("not_started")
    /\ wallets_to_track = {}

SpecTracker == InitTracker /\ [][NextTracker]_vars

\* a client awaits check_all_wallets on an object tracking some wallets
InitCheck ==
    /\ InitObject("not_started")
    /\ wallets_to_track \in SUBSET ClientAddresses

NextCheck ==
    \/ AwaitCheck
    \/ LookupWallet
    \/ LookupAccount
    \/ LookupReturn
    \/ CheckWallet
    \/ CheckReturn

SpecCheck == InitCheck /\ [][NextCheck]_vars

\* a client calls calculate_rewards with some holding duration
InitRewards ==
    /\ InitObject("not_started")
    /\ wallets_to_track = {}

CallCalculateRewards ==
    /\ rw_pc = "idle"
    /\ \E d \in RewardDays :
          /\ rw_days' = d
          /\ rw_pc' = "called"
    /\ UNCHANGED << rw_seed, rewards, trackerVars, mainVars, checkVars >>

NextRewards ==
    \/ CallCalculateRewards
    \/ SeedCall
    \/ SeedRaises
    \/ BoostCall
    \/ BoostRaises

SpecRewards == InitRewards /\ [][NextRewards]_vars

(***************************************************************************)
(* Properties.                                                             *)
(***************************************************************************)

\* C1: for every holding duration calculate_rewards returns the tier and
\* base multiplier of the first matching row: 365 days or more Diamond/2.0,
\* 180..364 Gold/1.5, 90..179 Silver/1.25, 0..89 Bronze/1.0, and a negative
\* duration gets what 0 gets, Bronze/1.0.
C1_TierTable ==
    rw_pc = "returned" =>
        LET r == rewards[1]
            d == rw_days
            row(t, b) == r.tier = t /\ r.base_multiplier = b
        IN  /\ r.holding_days = d
            /\ d >= 365 => row("Diamond", 200)
            /\ (d >= 180 /\ d <= 364) => row("Gold", 150)
            /\ (d >= 90 /\ d <= 179) => row("Silver", 125)
            /\ (d >= 0 /\ d <= 89) => row("Bronze", 100)
            /\ d < 0 => row("Bronze", 100)

C1_Witness ==
    /\ rw_pc = "returned"
    /\ rw_days = 365
    /\ rewards[1].tier = "Diamond"
    /\ rewards[1].base_multiplier = 200

\* C2: for every holding duration (negative ones included), every seed and
\* every count of '1' results in 0..100, the boost lies in [1.0, 1.5], the
\* final multiplier is base multiplier x boost, and so it lies in
\* [base, 1.5 x base] ([2.0, 3.0] for 400 days, [1.0, 1.5] for 0 days).
C2_BoostRange ==
    rw_pc = "returned" =>
        LET r == rewards[1]
        IN  /\ r.quantum_boost >= 1000
            /\ r.quantum_boost <= 1500
            /\ r.final_multiplier = r.base_multiplier * r.quantum_boost
            /\ r.final_multiplier >= r.base_multiplier * 1000
            /\ r.final_multiplier <= r.base_multiplier * 1500
            /\ rw_days = 400 =>
                  (r.final_multiplier >= 200000 /\ r.final_multiplier <= 300000)
            /\ rw_days = 0 =>
                  (r.final_multiplier >= 100000 /\ r.final_multiplier <= 150000)

C2_Witness ==
    /\ rw_pc = "returned"
    /\ rw_days = 400
    /\ rw_seed = 15
    /\ rewards[1].quantum_boost = 1500
    /\ rewards[1].final_multiplier = 300000

\* C3: after any sequence of add and remove calls the tracked collection is
\* the set those inserts and deletes give: an address is tracked exactly
\* when it was added and not removed since, and a listing holds every
\* tracked address exactly once and nothing else.
TrackedAfter(n, w) ==
    \E i \in 1..n :
        /\ ops[i].op = "add"
        /\ ops[i].wallet = w
        /\ \A j \in (i + 1)..n : ~(ops[j].op = "remove" /\ ops[j].wallet = w)

Occurrences(out, w) == Cardinality({ k \in 1..Len(out) : out[k] = w })

C3_SetSemantics ==
    /\ wallets_to_track \subseteq ClientAddresses
    /\ \A w \in ClientAddresses :
          w \in wallets_to_track <=> TrackedAfter(Len(ops), w)
    /\ \A i \in 1..Len(ops) :
          ops[i].op = "list" =>
              /\ \A w \in ClientAddresses :
                    Occurrences(ops[i].out, w) =
                        IF TrackedAfter(i - 1, w) THEN 1 ELSE 0
              /\ \A k \in 1..Len(ops[i].out) : ops[i].out[k] \in ClientAddresses

C3_Witness ==
    LET abc == << "A", "B", "C" >>
        xyz == << "X", "Y", "Z" >>
    IN  ops = << [op |-> "add", wallet |-> abc, out |-> << >>],
                 [op |-> "add", wallet |-> abc, out |-> << >>],
                 [op |-> "remove", wallet |-> xyz, out |-> << >>],
                 [op |-> "list", wallet |-> << >>, out |-> << abc >>] >>

\* C4: during a check, a wallet whose holdings lookup fails (no token
\* accounts, or an exception in an RPC call) is reported as an error and
\* skipped without analysis or rewards; the check is not aborted, and every
\* other tracked wallet is still checked.
LookupFailed == Len(holding_info) = 1 /\ IsError(holding_info[1])

C4_LookupFailureIsolated ==
    /\ (LookupFailed /\ check_pc # "body") =>
          /\ reports[wallet[1]] = "error"
          /\ check_pc \in {"loop", "returned"}
    /\ check_pc \in {"loop", "accounts", "body"} =>
          /\ to_visit \cup fetched = wallets_to_track
          /\ \A w \in to_visit : reports[w] = "unvisited"
    /\ check_pc = "returned" =>
          /\ fetched = wallets_to_track
          /\ \A w \in wallets_to_track : reports[w] # "unvisited"

C4_Witness ==
    /\ check_pc = "returned"
    /\ Cardinality(wallets_to_track) = 3
    /\ \E w1, w2 \in wallets_to_track :
          /\ reports[w1] = "error"
          /\ reports[w2] = "error"
          /\ w1 # w2
          /\ wallet # << w1 >>
          /\ wallet # << w2 >>
    /\ reports[wallet[1]] = "no_tokens"
    /\ ~LookupFailed

\* C6 (as claimed): once the check command has been handled, every wallet
\* tracked at that moment has had its holdings fetched.
C6_CheckCommandRuns ==
    (main_pc = "sleep" /\ Dispatch(Normalize(command)).branch = "check") =>
        fetched = wallets_to_track

\* C7: an input line whose trimmed, lower-cased form is none of exit, list,
\* check, "add <address>" and "remove <address>" (so also add and remove
\* with no address, and the empty line) gets the invalid-command message,
\* leaves the tracked set as it was, and the loop goes on to its next turn.
HasAddress(cmd, word) ==
    /\ Len(cmd) > Len(word) + 1
    /\ SubSeq(cmd, 1, Len(word)) = word
    /\ cmd[Len(word) + 1] = " "
    /\ \E i \in (Len(word) + 2)..Len(cmd) : cmd[i] \notin Whitespace

ValidCommand(cmd) ==
    \/ cmd \in { ExitWord, ListWord, CheckWord }
    \/ HasAddress(cmd, << "a", "d", "d" >>)
    \/ HasAddress(cmd, << "r", "e", "m", "o", "v", "e" >>)

CommandHandled ==
    /\ main_pc = "input"
    /\ main_pc' \in {"sleep", "exited"}
    /\ ended_by' # "interrupt"

C7_InvalidRejected ==
    [][ (CommandHandled /\ ~ValidCommand(Normalize(command'))) =>
            /\ printed' = Message("invalid")
            /\ wallets_to_track' = wallets_to_track
            /\ main_pc' = "sleep" ]_vars

C7_Witness ==
    /\ main_pc = "sleep"
    /\ command = << " ", "A", "d", "d", " " >>
    /\ printed = Message("invalid")
    /\ wallets_to_track = { << "a" >> }

\* C8: the command loop ends only on the exit command or on an interrupt;
\* an exception raised by the scheduler's pending work or by reading a
\* command leaves the loop running, back at the top of its next turn.
C8_LoopEndsOnlyOnExit ==
    [][ /\ (main_pc # "exited" /\ main_pc' = "exited") =>
              \/ ended_by' = "interrupt"
              \/ /\ ended_by' = "exit"
                 /\ main_pc = "input"
                 /\ Normalize(command') = ExitWord
        /\ (main_pc # "exited" /\ ended_by' = ended_by) => main_pc' # "exited"
      ]_vars

C8_Witness ==
    /\ main_pc = "input"
    /\ printed = Message("error")
    /\ wallets_to_track # {}
    /\ coroutines > 0

C10_TrackedAddressesNormalised ==
    \A w \in wallets_to_track :
        /\ Len(w) > 0
        /\ w[1] \notin Whitespace
        /\ w[Len(w)] \notin Whitespace
        /\ \A i \in 1..Len(w) : ~IsUpper(w[i])

C10_Witness ==
    /\ main_pc = "sleep"
    /\ command = << " ", "a", "d", "d", " ", "a", " ", "B", " " >>
    /\ wallets_to_track = { << "a", " ", "b" >>, << "b" >> }

====
